---- MODULE Spec2Model ----
(***************************************************************************)
(* A model of schwab_portfolios.py: the Node tree (Equity leaves,          *)
(* Portfolio interior nodes with Decimal child weights), its constructors  *)
(* and their assertions, the dict/JSON codec, all_equities, flatten, and   *)
(* the name lookups.                                                       *)
(*                                                                         *)
(* Python values are modelled as follows.                                  *)
(*   str        a sequence of one-character strings: <<"A", "/", "B">>     *)
(*   Decimal    [sign, int, exp] as in CPython's decimal: sign 0/1, int    *)
(*              the coefficient digits (most significant first), exp the   *)
(*              power of ten                                               *)
(*   object     an index into heap; == and hash of an object without       *)
(*              __eq__ are those of its identity, the index                *)
(*   dict       a sequence of <<key, value>> pairs in insertion order      *)
(*   exception  the name of the exception class raised, "" for none        *)
(***************************************************************************)
EXTENDS Integers, Sequences, FiniteSets, TLC

VARIABLES heap, ret

vars == <<heap, ret>>

(***************************************************************************)
(* Characters and strings                                                  *)
(***************************************************************************)
DigitChars == <<"0", "1", "2", "3", "4", "5", "6", "7", "8", "9">>

IsDigit(c) == \E i \in 1..10 : DigitChars[i] = c

DigitOf(c) == (CHOOSE i \in 1..10 : DigitChars[i] = c) - 1

Max(a, b) == IF a >= b THEN a ELSE b

Min(a, b) == IF a <= b THEN a ELSE b

Zeros(n) == [i \in 1..n |-> 0]

\* "%d" % n for n >= 0
RECURSIVE NatStr(_)
NatStr(n) ==
    IF n < 10 THEN <<DigitChars[n + 1]>>
    ELSE Append(NatStr(n \div 10), DigitChars[(n % 10) + 1])

\* "%+d" % n
SignedStr(n) == IF n < 0 THEN <<"-">> \o NatStr(-n) ELSE <<"+">> \o NatStr(n)

\* int(s) for a string of digits
RECURSIVE NatOf(_)
NatOf(s) ==
    IF s = <<>> THEN 0
    ELSE 10 * NatOf(SubSeq(s, 1, Len(s) - 1)) + DigitOf(s[Len(s)])

(***************************************************************************)
(* Coefficient arithmetic on digit sequences (most significant first)      *)
(***************************************************************************)
RECURSIVE StripZeros(_)
StripZeros(ds) ==
    IF Len(ds) > 1 /\ ds[1] = 0 THEN StripZeros(Tail(ds)) ELSE ds

PadLeft(ds, n) == Zeros(n - Len(ds)) \o ds

RECURSIVE AddC(_, _, _, _)
AddC(a, b, i, carry) ==
    IF i = 0 THEN (IF carry = 0 THEN <<>> ELSE <<carry>>)
    ELSE LET s == a[i] + b[i] + carry
         IN  Append(AddC(a, b, i - 1, s \div 10), s % 10)

\* a + b
AddMag(a, b) ==
    LET n == Max(Len(a), Len(b))
    IN  StripZeros(AddC(PadLeft(a, n), PadLeft(b, n), n, 0))

RECURSIVE SubC(_, _, _, _)
SubC(a, b, i, borrow) ==
    IF i = 0 THEN <<>>
    ELSE LET s == a[i] - b[i] - borrow
         IN  Append(SubC(a, b, i - 1, IF s < 0 THEN 1 ELSE 0),
                    IF s < 0 THEN s + 10 ELSE s)

\* a - b, for a >= b
SubMag(a, b) ==
    LET n == Max(Len(a), Len(b))
    IN  StripZeros(SubC(PadLeft(a, n), PadLeft(b, n), n, 0))

RECURSIVE CmpC(_, _, _)
CmpC(a, b, i) ==
    IF i > Len(a) THEN 0
    ELSE IF a[i] < b[i] THEN -1
    ELSE IF a[i] > b[i] THEN 1
    ELSE CmpC(a, b, i + 1)

\* -1, 0, 1 as a < b, a = b, a > b
CmpMag(a, b) ==
    LET n == Max(Len(a), Len(b))
    IN  CmpC(PadLeft(a, n), PadLeft(b, n), 1)

\* digits of n >= 0, none for 0
RECURSIVE NatDigits(_)
NatDigits(n) ==
    IF n = 0 THEN <<>> ELSE Append(NatDigits(n \div 10), n % 10)

\* sum of a[i] * b[k + 1 - i] for i in lo..hi
RECURSIVE ColSum(_, _, _, _, _)
ColSum(a, b, k, lo, hi) ==
    IF lo > hi THEN 0
    ELSE a[lo] * b[k + 1 - lo] + ColSum(a, b, k, lo + 1, hi)

RECURSIVE MulC(_, _, _)
MulC(col, i, carry) ==
    IF i = 0 THEN NatDigits(carry)
    ELSE LET s == col[i] + carry
         IN  Append(MulC(col, i - 1, s \div 10), s % 10)

\* a * b
MulMag(a, b) ==
    LET n   == Len(a) + Len(b) - 1
        col == [k \in 1..n |->
                  ColSum(a, b, k, Max(1, k + 1 - Len(b)), Min(k, Len(a)))]
    IN  StripZeros(<<0>> \o MulC(col, n, 0))

IsZeroMag(a) == \A i \in 1..Len(a) : a[i] = 0

(***************************************************************************)
(* decimal.Decimal                                                         *)
(***************************************************************************)
\* decimal.getcontext().prec, the precision of every arithmetic result
Prec == 28

Dec(s, ds, e) == [sign |-> s, int |-> ds, exp |-> e]

DecZero == Dec(0, <<0>>, 0)

DecOne == Dec(0, <<1>>, 0)

\* The sum of coefficients ca and cb of signs sa and sb at exponent e.
AddAligned(sa, ca, sb, cb, e) ==
    IF sa = sb THEN Dec(sa, AddMag(ca, cb), e)
    ELSE IF CmpMag(ca, cb) = 0 THEN Dec(0, <<0>>, e)
    ELSE IF CmpMag(ca, cb) > 0 THEN Dec(sa, SubMag(ca, cb), e)
    ELSE Dec(sb, SubMag(cb, ca), e)

\* The coefficient of d written at exponent e <= d.exp.
Rescaled(d, e) == IF IsZeroMag(d.int) THEN <<0>> ELSE d.int \o Zeros(d.exp - e)

\* The sum of two Decimals before the context rounds it.
ExactAdd(a, b) ==
    AddAligned(a.sign, Rescaled(a, Min(a.exp, b.exp)),
               b.sign, Rescaled(b, Min(a.exp, b.exp)), Min(a.exp, b.exp))

\* The product of two Decimals before the context rounds it.
ExactMul(a, b) ==
    Dec((a.sign + b.sign) % 2, MulMag(a.int, b.int), a.exp + b.exp)

\* ROUND_HALF_EVEN: whether dropping the digits rest after kept rounds up
RoundsUp(kept, rest) ==
    \/ CmpMag(rest, <<5>> \o Zeros(Len(rest) - 1)) > 0
    \/ /\ CmpMag(rest, <<5>> \o Zeros(Len(rest) - 1)) = 0
       /\ kept[Len(kept)] % 2 = 1

\* The rounded coefficient coef at exponent e: a carry into one digit more
\* than Prec drops the last digit.
Rounded(s, coef, e) ==
    IF Len(coef) > Prec THEN Dec(s, SubSeq(coef, 1, Prec), e + 1)
    ELSE Dec(s, coef, e)

FixRound(d, kept, rest) ==
    Rounded(d.sign,
            IF RoundsUp(kept, rest) THEN AddMag(kept, <<1>>) ELSE kept,
            d.exp + Len(rest))

\* Decimal._fix under ROUND_HALF_EVEN: at most Prec coefficient digits.
Fix(d) ==
    IF Len(d.int) <= Prec THEN d
    ELSE FixRound(d, SubSeq(d.int, 1, Prec), SubSeq(d.int, Prec + 1, Len(d.int)))

\* Decimal.__add__
DecAdd(a, b) == Fix(ExactAdd(a, b))

\* Decimal.__mul__
DecMul(a, b) == Fix(ExactMul(a, b))

\* Decimal.__neg__ without rounding
Negated(d) == Dec(1 - d.sign, d.int, d.exp)

\* Decimal.__eq__: numerical equality
DecEq(a, b) == IsZeroMag(ExactAdd(a, Negated(b)).int)

IsNegative(d) == ~IsZeroMag(d.int) /\ d.sign = 1

\* a < b exactly, in which the statements about weights are written
DecLess(a, b) == IsNegative(ExactAdd(a, Negated(b)))

\* Index just past the digits of s that start at i.
RECURSIVE DigitsEnd(_, _)
DigitsEnd(s, i) ==
    IF i <= Len(s) /\ IsDigit(s[i]) THEN DigitsEnd(s, i + 1) ELSE i

\* The Decimal of sign sgn, digits intpart and frac around the point, and
\* exponent expo.
DecimalMake(sgn, intpart, frac, expo) ==
    [raise |-> "",
     val   |-> Dec(sgn,
                   StripZeros([k \in 1..(Len(intpart) + Len(frac)) |->
                                 DigitOf((intpart \o frac)[k])]),
                   expo - Len(frac))]

InvalidDecimal == [raise |-> "InvalidOperation", val |-> DecZero]

\* The exponent part s[f1..] of a numeric string: nothing, or E, an
\* optional sign at e0 - 1 and digits s[e0..e1-1] to the end of s.
DecimalExp(s, sgn, intpart, frac, f1, e0, e1) ==
    IF Len(intpart) + Len(frac) = 0 \/ e1 # Len(s) + 1 THEN InvalidDecimal
    ELSE IF f1 = e0 THEN DecimalMake(sgn, intpart, frac, 0)
    ELSE IF e1 = e0 THEN InvalidDecimal
    ELSE IF s[e0 - 1] = "-"
         THEN DecimalMake(sgn, intpart, frac, 0 - NatOf(SubSeq(s, e0, e1 - 1)))
         ELSE DecimalMake(sgn, intpart, frac, NatOf(SubSeq(s, e0, e1 - 1)))

\* Index of the first digit of the exponent that starts at f1, f1 itself
\* when there is no E there.
ExpStart(s, f1) ==
    IF ~(f1 <= Len(s) /\ s[f1] \in {"E", "e"}) THEN f1
    ELSE IF f1 + 1 <= Len(s) /\ s[f1 + 1] \in {"-", "+"} THEN f1 + 2
    ELSE f1 + 1

\* The fraction s[f0..f1-1] parsed, on to the exponent.
DecimalFrac(s, sgn, intpart, f0, f1) ==
    DecimalExp(s, sgn, intpart, SubSeq(s, f0, f1 - 1), f1, ExpStart(s, f1),
               DigitsEnd(s, ExpStart(s, f1)))

\* The integer part s[i0..i1-1] parsed, on to the point and the fraction.
DecimalInt(s, sgn, i0, i1) ==
    IF i1 <= Len(s) /\ s[i1] = "."
    THEN DecimalFrac(s, sgn, SubSeq(s, i0, i1 - 1), i1 + 1, DigitsEnd(s, i1 + 1))
    ELSE DecimalFrac(s, sgn, SubSeq(s, i0, i1 - 1), i1, i1)

\* Decimal(str): the exact value the numeric string denotes (sign, digits,
\* point, exponent), or the InvalidOperation raised for any other string.
\* The strings Infinity and NaN are not among the inputs.
DecimalOf(s) ==
    IF Len(s) >= 1 /\ s[1] \in {"-", "+"}
    THEN DecimalInt(s, IF s[1] = "-" THEN 1 ELSE 0, 2, DigitsEnd(s, 2))
    ELSE DecimalInt(s, 0, 1, DigitsEnd(s, 1))

\* the digits digs with the point after the first dotplace of them, then exp
Pointed(digs, dotplace, exp) ==
    (IF dotplace <= 0
        THEN <<"0", ".">> \o [k \in 1..(0 - dotplace) |-> "0"] \o digs
        ELSE IF dotplace >= Len(digs)
             THEN digs \o [k \in 1..(dotplace - Len(digs)) |-> "0"]
             ELSE SubSeq(digs, 1, dotplace) \o <<".">>
                  \o SubSeq(digs, dotplace + 1, Len(digs)))
    \o (IF exp = 0 THEN <<>> ELSE <<"E">> \o SignedStr(exp))

\* Decimal.__str__: the scientific string; leftdigits is the number of
\* digits before the point when no exponent is written
DecimalStr(d) ==
    (IF d.sign = 1 THEN <<"-">> ELSE <<>>) \o
    (IF d.exp <= 0 /\ d.exp + Len(d.int) > -6
        THEN Pointed([k \in 1..Len(d.int) |-> DigitChars[d.int[k] + 1]],
                     d.exp + Len(d.int), 0)
        ELSE Pointed([k \in 1..Len(d.int) |-> DigitChars[d.int[k] + 1]],
                     1, d.exp + Len(d.int) - 1))

(***************************************************************************)
(* dict: a sequence of <<key, value>> pairs in insertion order             *)
(***************************************************************************)
DictHas(d, k) == \E i \in 1..Len(d) : d[i][1] = k

\* d[k] for a key that is present
DictAt(d, k) == d[CHOOSE i \in 1..Len(d) : d[i][1] = k][2]

\* d[k] = v: a present key keeps its place and takes the new value
DictSet(d, k, v) ==
    IF DictHas(d, k)
    THEN [i \in 1..Len(d) |-> IF d[i][1] = k THEN <<k, v>> ELSE d[i]]
    ELSE Append(d, <<k, v>>)

\* A dict comprehension that keeps only its last pair.
DictOfLast(ps, n) == IF n = 0 THEN <<>> ELSE <<ps[n]>>

RECURSIVE DictOf(_, _)
\* the dict built by inserting the first n pairs of ps in order
DictOf(ps, n) ==
    IF n = 0 THEN <<>> ELSE DictSet(DictOf(ps, n - 1), ps[n][1], ps[n][2])

Range(f) == {f[i] : i \in DOMAIN f}

(***************************************************************************)
(* Exceptions and values returned                                          *)
(***************************************************************************)
\* assert sum(...) == 1
WeightSumError == "AssertionError"

\* assert len(child_names) == len(set(child_names))
DuplicateChildName == "AssertionError"

\* raise ValueError("Invalid node type.")
InvalidNodeType == "ValueError"

\* a subscript of a dict with a key it lacks
MalformedStructure == "KeyError"

\* raise Exception("Can't slice equity.")
NotSliceable == "Exception"

\* Decimal(v) for a string that is no number
InvalidWeight == "InvalidOperation"

\* a method the class does not define
AttributeError == "AttributeError"

\* None
None == [none |-> TRUE]

Some(v) == [none |-> FALSE, v |-> v]

(***************************************************************************)
(* Equity                                                                  *)
(***************************************************************************)
\* Equity.__init__
Equity(ticker) == [type |-> "EQUITY", name |-> ticker, ticker |-> ticker]

IsEquity(h, o) == h[o].type = "EQUITY"

IsPortfolio(h, o) == h[o].type = "PORTFOLIO"

(***************************************************************************)
(* Portfolio                                                               *)
(***************************************************************************)
\* sum(val for val in self.children.values()): from 0, left to right
RECURSIVE SumValues(_, _)
SumValues(kids, n) ==
    IF n = 0 THEN DecZero ELSE DecAdd(SumValues(kids, n - 1), kids[n][2])

\* [child.name for child in self.children.keys()]
ChildNames(h, kids) == [i \in 1..Len(kids) |-> h[kids[i][1]].name]

\* Portfolio.__init__ without its assert on the child names.
PortfolioAssertedSumOnly(h, name, kids) ==
    IF ~DecEq(SumValues(kids, Len(kids)), DecOne)
    THEN [raise |-> WeightSumError]
    ELSE [raise |-> "",
          obj   |-> [type |-> "PORTFOLIO", name |-> name, children |-> kids,
                     _children_by_name |->
                        DictOf([i \in 1..Len(kids) |->
                                  <<h[kids[i][1]].name, kids[i]>>], Len(kids))]]

\* the asserts of Portfolio.__init__ on self.children = kids, and the object
PortfolioAsserted(h, name, kids) ==
    IF ~DecEq(SumValues(kids, Len(kids)), DecOne)
    THEN [raise |-> WeightSumError]
    ELSE IF Len(kids) # Cardinality(Range(ChildNames(h, kids)))
    THEN [raise |-> DuplicateChildName]
    ELSE [raise |-> "",
          obj   |-> [type |-> "PORTFOLIO", name |-> name, children |-> kids,
                     _children_by_name |->
                        DictOf([i \in 1..Len(kids) |->
                                  <<h[kids[i][1]].name, kids[i]>>], Len(kids))]]

\* {k: Decimal(v) for k, v in children.items()}, decs the Decimal(v)
PortfolioParsed(h, name, children, decs) ==
    IF \E i \in 1..Len(children) : decs[i].raise # ""
    THEN [raise |-> InvalidWeight]
    ELSE PortfolioAsserted(h, name,
            [i \in 1..Len(children) |-> <<children[i][1], decs[i].val>>])

\* Portfolio.__init__ on heap h: children is the dict passed, node -> str.
\* Gives the exception raised, or the object built.
PortfolioInit(h, name, children) ==
    PortfolioParsed(h, name, children,
                    [i \in 1..Len(children) |-> DecimalOf(children[i][2])])

\* Node.to_dict: Equity.to_dict and Portfolio.to_dict
RECURSIVE to_dict(_, _)
to_dict(h, o) ==
    IF IsEquity(h, o)
    THEN [type |-> "EQUITY", ticker |-> h[o].ticker]
    ELSE [type     |-> "PORTFOLIO",
          name     |-> h[o].name,
          children |-> [i \in 1..Len(h[o].children) |->
                          <<to_dict(h, h[o].children[i][1]),
                            DecimalStr(h[o].children[i][2])>>]]

\* json.dumps and json.loads: the text of a document of dicts, lists and
\* strings, and the document of a text.
json_dumps(d) == [json |-> d]

json_loads(t) == t.json

\* Node.to_json
to_json(h, o) == json_dumps(to_dict(h, o))

Raised(e, h) == [raise |-> e, heap |-> h, val |-> 0]

Returned(h, o) == [raise |-> "", heap |-> h, val |-> o]

\* Equity.from_dict
EquityFromDict(h, d) ==
    IF "type" \notin DOMAIN d THEN Raised(MalformedStructure, h)
    ELSE IF d.type # "EQUITY" THEN Raised("AssertionError", h)
    ELSE IF "ticker" \notin DOMAIN d THEN Raised(MalformedStructure, h)
    ELSE Returned(Append(h, Equity(d.ticker)), Len(h) + 1)

RECURSIVE NodeFromDict(_, _)
RECURSIVE PortfolioFromDict(_, _)
RECURSIVE ChildrenFromList(_, _, _)

\* the entry of the comprehension for entries[n], child its decoded node
ChildAdded(h, entries, n, before, child) ==
    IF child.raise # "" THEN Raised(child.raise, h)
    ELSE Returned(child.heap, Append(before.val, <<child.val, entries[n][2]>>))

ChildAfter(h, entries, n, before) ==
    IF before.raise # "" THEN before
    ELSE ChildAdded(h, entries, n, before,
                    NodeFromDict(before.heap, entries[n][1]))

\* {Node.from_dict(child): pct for child, pct in node_dict['children']}:
\* the first n entries decoded in order, each child a new object
ChildrenFromList(h, entries, n) ==
    IF n = 0 THEN Returned(h, <<>>)
    ELSE ChildAfter(h, entries, n, ChildrenFromList(h, entries, n - 1))

\* the object of Portfolio(...) once built on heap h2, or its exception
PortfolioMade(h, h2, made) ==
    IF made.raise # "" THEN Raised(made.raise, h)
    ELSE Returned(Append(h2, made.obj), Len(h2) + 1)

PortfolioOfChildren(h, name, kids) ==
    IF kids.raise # "" THEN Raised(kids.raise, h)
    ELSE PortfolioMade(h, kids.heap, PortfolioInit(kids.heap, name, kids.val))

\* Portfolio.from_dict
PortfolioFromDict(h, d) ==
    IF "type" \notin DOMAIN d THEN Raised(MalformedStructure, h)
    ELSE IF d.type # "PORTFOLIO" THEN Raised("AssertionError", h)
    ELSE IF "name" \notin DOMAIN d THEN Raised(MalformedStructure, h)
    ELSE IF "children" \notin DOMAIN d THEN Raised(MalformedStructure, h)
    ELSE PortfolioOfChildren(h, d.name,
                             ChildrenFromList(h, d.children, Len(d.children)))

\* Node.from_dict reading node_dict.get('type'): a missing type is an
\* invalid type.
NodeFromDictGet(h, d) ==
    IF "type" \in DOMAIN d /\ d.type = "EQUITY" THEN EquityFromDict(h, d)
    ELSE IF "type" \in DOMAIN d /\ d.type = "PORTFOLIO"
    THEN PortfolioFromDict(h, d)
    ELSE Raised(InvalidNodeType, h)

\* Node.from_dict
NodeFromDict(h, d) ==
    IF "type" \notin DOMAIN d THEN Raised(MalformedStructure, h)
    ELSE IF d.type = "EQUITY" THEN EquityFromDict(h, d)
    ELSE IF d.type = "PORTFOLIO" THEN PortfolioFromDict(h, d)
    ELSE Raised(InvalidNodeType, h)

\* cls.from_dict(node_dict) for cls one of Node, Equity, Portfolio
from_dict(cls, h, d) ==
    IF cls = "Equity" THEN EquityFromDict(h, d)
    ELSE IF cls = "Portfolio" THEN PortfolioFromDict(h, d)
    ELSE NodeFromDict(h, d)

\* cls.from_json(text)
from_json(cls, h, text) == from_dict(cls, h, json_loads(text))

\* Portfolio.all_equities: a set of Equity objects
RECURSIVE all_equities(_, _)
all_equities(h, o) ==
    UNION {IF IsEquity(h, h[o].children[i][1])
           THEN {h[o].children[i][1]}
           ELSE all_equities(h, h[o].children[i][1]) : i \in 1..Len(h[o].children)}

\* f"{name}/{path}"
Join(name, path) == name \o <<"/">> \o path

RECURSIVE flatten(_, _)
RECURSIVE FlattenFrom(_, _, _)
RECURSIVE FlattenSub(_, _, _, _, _)

\* the inner loop of flatten: the first m entries of the child's flattening
\* written into result under the name and weight of the parent's entry
FlattenSub(result, name, pct, sub, m) ==
    IF m = 0 THEN result
    ELSE DictSet(FlattenSub(result, name, pct, sub, m - 1),
                 Join(name, sub[m][1]), DecMul(pct, sub[m][2]))

\* one pass of the outer loop of flatten: the entry node -> pct into result
FlattenChild(h, o, result, node, pct) ==
    IF IsPortfolio(h, node)
    THEN FlattenSub(result, h[o].name, pct, flatten(h, node),
                    Len(flatten(h, node)))
    ELSE DictSet(result, Join(h[o].name, h[node].ticker), pct)

\* the outer loop of flatten over the first n children
FlattenFrom(h, o, n) ==
    IF n = 0 THEN <<>>
    ELSE FlattenChild(h, o, FlattenFrom(h, o, n - 1),
                      h[o].children[n][1], h[o].children[n][2])

\* Portfolio.flatten: a dict from path to Decimal
flatten(h, o) == FlattenFrom(h, o, Len(h[o].children))

\* Portfolio.__getitem__
getitem(h, o, key) ==
    IF DictHas(h[o]._children_by_name, key)
    THEN Some(DictAt(h[o]._children_by_name, key))
    ELSE None

\* child and child[0]
FirstOf(child) == IF child.none THEN None ELSE Some(child.v[1])

\* Portfolio.__truediv__
truediv(h, o, key) == FirstOf(getitem(h, o, key))

\* Node.__eq__, inherited from object by both classes: identity
eq(a, b) == a = b

\* the coefficient without trailing zeros, and the exponent that goes with it
RECURSIVE Normalize(_)
Normalize(d) ==
    IF IsZeroMag(d.int) THEN DecZero
    ELSE IF d.int[Len(d.int)] = 0
         THEN Normalize(Dec(d.sign, SubSeq(d.int, 1, Len(d.int) - 1), d.exp + 1))
         ELSE d

\* hash: Equity inherits object.__hash__ (identity); Portfolio.__hash__ is
\* hash((self.name, *self.children.items())), a tuple hash over the name, the
\* children's hashes and the weights' numerical values
RECURSIVE hash(_, _)
hash(h, o) ==
    IF IsEquity(h, o)
    THEN [of |-> "object", id |-> o, name |-> <<>>, items |-> <<>>]
    ELSE [of    |-> "tuple", id |-> 0, name |-> h[o].name,
          items |-> [i \in 1..Len(h[o].children) |->
                       <<hash(h, h[o].children[i][1]),
                         Normalize(h[o].children[i][2])>>]]

(***************************************************************************)
(* Documents handed to from_json                                           *)
(***************************************************************************)
Without(d, k) == [x \in DOMAIN d \ {k} |-> d[x]]

\* The document d with one fault at its root.
Faulty(d, fault) ==
    CASE fault = "no_type"     -> Without(d, "type")
      [] fault = "bad_type"    -> [d EXCEPT !.type = "BOND"]
      [] fault = "no_name"     -> Without(d, "name")
      [] fault = "no_children" -> Without(d, "children")
      [] fault = "no_ticker"   -> Without(d, "ticker")
      [] fault = "repeat" ->
            IF d.type = "PORTFOLIO"
            THEN [d EXCEPT !.children = Append(@, <<@[1][1], <<"0">>>>)]
            ELSE d
      [] fault = "halve" ->
            IF d.type = "PORTFOLIO"
            THEN [d EXCEPT !.children[1][2] = <<"0", ".", "5">>]
            ELSE d
      [] OTHER -> d

\* The document d with one fault at the node that path leads to, a path
\* being the indexes of the children entries to follow from the root.
RECURSIVE Damage(_, _, _)
Damage(d, path, fault) ==
    IF path = <<>> THEN Faulty(d, fault)
    ELSE [d EXCEPT !.children[path[1]][1] = Damage(@, Tail(path), fault)]

\* The paths to the nodes of the tree of o.
RECURSIVE NodePaths(_, _)
NodePaths(h, o) ==
    {<<>>} \cup
    (IF IsEquity(h, o) THEN {}
     ELSE UNION {{<<i>> \o p : p \in NodePaths(h, h[o].children[i][1])} :
                 i \in 1..Len(h[o].children)})

(***************************************************************************)
(* Inputs                                                                  *)
(***************************************************************************)
\* objects on the heap, and entries of a children dict
MaxHeap == 3

MaxChildren == 2

\* objects on the heap where only trees are built and read
MaxTree == 4

Tickers == {<<"A">>, <<"B">>, <<"A", "/", "B">>}

Names == {<<"A">>}

Keys == Tickers \cup Names \cup {<<"Z">>}

Weights == {<<"1">>, <<"0", ".", "5">>, <<"0">>, <<"x">>}

\* 0.99999999999999999999999999999, one digit more than Prec
Nines == <<"0", ".">> \o [i \in 1..(Prec + 1) |-> "9"]

\* 1E-29, one unit in the last place of Nines
Ulp == <<"1", "E", "-">> \o NatStr(Prec + 1)

LongWeights == {<<"1">>, <<"0", ".", "5">>, Nines, Ulp,
                <<"1", ".", "5">>, <<"-", "0", ".", "5">>}

Faults == {"none", "no_type", "bad_type", "no_name", "no_children",
           "no_ticker", "repeat", "halve"}

Classes == {"Node", "Equity", "Portfolio"}

\* the dicts of at most MaxChildren entries from objects of h to weights of W
ChildDicts(h, W) ==
    UNION {{c \in [1..n -> (1..Len(h)) \X W] :
              \A i, j \in 1..n : i # j => c[i][1] # c[j][1]} : n \in 0..MaxChildren}

(***************************************************************************)
(* The caller: one call at a time, its outcome in ret                      *)
(***************************************************************************)
Idle == [op |-> "idle", self |-> 0, arg |-> <<>>, raise |-> "", val |-> 0]

Outcome(op, self, arg, raise, val) ==
    [op |-> op, self |-> self, arg |-> arg, raise |-> raise, val |-> val]

Init ==
    /\ heap = <<>>
    /\ ret = Idle

\* Equity(ticker=t)
NewEquity(cap, t) ==
    /\ Len(heap) < cap
    /\ heap' = Append(heap, Equity(t))
    /\ ret' = Outcome("Equity", 0, t, "", Len(heap) + 1)

\* the outcome of Portfolio(...): the object on the heap, or the exception
Constructed(arg, made) ==
    IF made.raise = ""
    THEN /\ heap' = Append(heap, made.obj)
         /\ ret' = Outcome("Portfolio", 0, arg, "", Len(heap) + 1)
    ELSE /\ heap' = heap
         /\ ret' = Outcome("Portfolio", 0, arg, made.raise, 0)

\* Portfolio(name=name, children=children)
NewPortfolio(cap, name, children) ==
    /\ Len(heap) < cap
    /\ Constructed(<<name, children>>, PortfolioInit(heap, name, children))

\* the outcome of from_json: the decoded objects on the heap, or the exception
Decoded(o, arg, got) ==
    /\ heap' = got.heap
    /\ ret' = Outcome("from_json", o, arg, got.raise, got.val)

\* cls.from_json(text), text the JSON of o with one fault at path
CallFromJson(cls, o, path, fault) ==
    Decoded(o, <<cls, path, fault, Len(heap)>>,
            from_json(cls, heap,
                      json_dumps(Damage(json_loads(to_json(heap, o)),
                                        path, fault))))

\* o[key]
CallGetItem(o, key) ==
    /\ UNCHANGED heap
    /\ ret' = IF IsEquity(heap, o)
              THEN Outcome("getitem", o, key, NotSliceable, None)
              ELSE Outcome("getitem", o, key, "", getitem(heap, o, key))

\* o / key
CallTrueDiv(o, key) ==
    /\ UNCHANGED heap
    /\ ret' = IF IsEquity(heap, o)
              THEN Outcome("truediv", o, key, NotSliceable, None)
              ELSE Outcome("truediv", o, key, "", truediv(heap, o, key))

\* o.all_equities()
CallAllEquities(o) ==
    /\ UNCHANGED heap
    /\ ret' = IF IsEquity(heap, o)
              THEN Outcome("all_equities", o, <<>>, AttributeError, {})
              ELSE Outcome("all_equities", o, <<>>, "", all_equities(heap, o))

\* o.flatten()
CallFlatten(o) ==
    /\ UNCHANGED heap
    /\ ret' = IF IsEquity(heap, o)
              THEN Outcome("flatten", o, <<>>, AttributeError, <<>>)
              ELSE Outcome("flatten", o, <<>>, "", flatten(heap, o))

\* a == b and hash(a) == hash(b)
CallEq(a, b) ==
    /\ UNCHANGED heap
    /\ ret' = Outcome("eq", a, b, "",
                      [eq |-> eq(a, b), hash |-> hash(heap, a) = hash(heap, b)])

\* the caller is done with the outcome of its call; it keeps no more than
\* cap objects, and lets go of a decoded tree that would make them more
Resume(cap) ==
    /\ ret.op # "idle"
    /\ heap' = IF ret.op = "from_json" /\ Len(heap) > cap
               THEN SubSeq(heap, 1, ret.arg[4])
               ELSE heap
    /\ ret' = Idle

\* The caller's next call, when it holds no outcome.
Equities(cap) ==
    /\ ret.op = "idle"
    /\ \E t \in Tickers : NewEquity(cap, t)

Portfolios(cap, W) ==
    /\ ret.op = "idle"
    /\ \E name \in Names : \E children \in ChildDicts(heap, W) :
          NewPortfolio(cap, name, children)

Decodes ==
    /\ ret.op = "idle"
    /\ \E cls \in Classes : \E o \in 1..Len(heap) :
          \E path \in NodePaths(heap, o) : \E fault \in Faults :
             CallFromJson(cls, o, path, fault)

GetItems ==
    /\ ret.op = "idle"
    /\ \E o \in 1..Len(heap) : \E key \in Keys : CallGetItem(o, key)

TrueDivs ==
    /\ ret.op = "idle"
    /\ \E o \in 1..Len(heap) : \E key \in Keys : CallTrueDiv(o, key)

AllEquities ==
    /\ ret.op = "idle"
    /\ \E o \in 1..Len(heap) : CallAllEquities(o)

Flattens ==
    /\ ret.op = "idle"
    /\ \E o \in 1..Len(heap) : CallFlatten(o)

Eqs ==
    /\ ret.op = "idle"
    /\ \E a \in 1..Len(heap) : \E b \in 1..Len(heap) : CallEq(a, b)

Next ==
    \/ Equities(MaxHeap)
    \/ Portfolios(MaxHeap, Weights)
    \/ Decodes
    \/ GetItems
    \/ TrueDivs
    \/ AllEquities
    \/ Flattens
    \/ Eqs
    \/ Resume(MaxHeap)

Spec == Init /\ [][Next]_vars

\* Trees of up to MaxTree objects with weights longer than the precision,
\* built and read.
NextTree ==
    \/ Equities(MaxTree)
    \/ Portfolios(MaxTree, LongWeights)
    \/ AllEquities
    \/ Flattens
    \/ Eqs
    \/ Resume(MaxTree)

SpecTree == Init /\ [][NextTree]_vars

(***************************************************************************)
(* What the claims speak of, computed from the tree and not by the code    *)
(***************************************************************************)
HeapPortfolios == {o \in 1..Len(heap) : IsPortfolio(heap, o)}

\* the sum of the weights of the first n entries of kids, never rounded
RECURSIVE ExactSum(_, _)
ExactSum(kids, n) ==
    IF n = 0 THEN DecZero ELSE ExactAdd(ExactSum(kids, n - 1), kids[n][2])

\* the children dict passed to Portfolio(...) with its weights as Decimals
AsDecimals(children) ==
    [i \in 1..Len(children) |-> <<children[i][1], DecimalOf(children[i][2]).val>>]

AllNumeric(children) ==
    \A i \in 1..Len(children) : DecimalOf(children[i][2]).raise = ""

\* two entries of the dict are nodes of one name
SharesName(children) ==
    \E i, j \in 1..Len(children) :
       i # j /\ heap[children[i][1]].name = heap[children[j][1]].name

\* the paths (child indexes from o) to the leaves of the tree of o
RECURSIVE LeafPositions(_, _)
LeafPositions(h, o) ==
    IF IsEquity(h, o) THEN {<<>>}
    ELSE UNION {{<<i>> \o p : p \in LeafPositions(h, h[o].children[i][1])} :
                i \in 1..Len(h[o].children)}

\* the names from o down the position pos, joined ancestor-first with "/"
RECURSIVE PathKey(_, _, _)
PathKey(h, o, pos) ==
    IF pos = <<>> THEN h[o].name
    ELSE Join(h[o].name, PathKey(h, h[o].children[pos[1]][1], Tail(pos)))

\* the product of the child weights down the position pos, never rounded
RECURSIVE PathWeight(_, _, _)
PathWeight(h, o, pos) ==
    IF pos = <<>> THEN DecOne
    ELSE ExactMul(h[o].children[pos[1]][2],
                  PathWeight(h, h[o].children[pos[1]][1], Tail(pos)))

\* the node reached from o down the position pos
RECURSIVE NodeAt(_, _, _)
NodeAt(h, o, pos) ==
    IF pos = <<>> THEN o ELSE NodeAt(h, h[o].children[pos[1]][1], Tail(pos))

\* the Equity objects at the leaves of the tree of o
Leaves(h, o) == {NodeAt(h, o, pos) : pos \in LeafPositions(h, o)}

\* the same content: equal tickers, or equal names and the same mapping from
\* child to weight, child by child
RECURSIVE SameContent(_, _, _)
SameContent(h, a, b) ==
    IF IsEquity(h, a) /\ IsEquity(h, b) THEN h[a].ticker = h[b].ticker
    ELSE IF IsPortfolio(h, a) /\ IsPortfolio(h, b)
    THEN /\ h[a].name = h[b].name
         /\ \A i \in 1..Len(h[a].children) : \E j \in 1..Len(h[b].children) :
               /\ SameContent(h, h[a].children[i][1], h[b].children[j][1])
               /\ DecEq(h[a].children[i][2], h[b].children[j][2])
         /\ \A j \in 1..Len(h[b].children) : \E i \in 1..Len(h[a].children) :
               /\ SameContent(h, h[a].children[i][1], h[b].children[j][1])
               /\ DecEq(h[a].children[i][2], h[b].children[j][2])
    ELSE FALSE

(***************************************************************************)
(* Claims                                                                  *)
(***************************************************************************)
\* C1: the child weights of every Portfolio sum to exactly 1, and
\* Portfolio(...) with numeric weights of any other exact sum (an empty
\* children dict, of sum 0, among them) raises WeightSumError.
C1_WeightsSumToOne ==
    /\ \A o \in HeapPortfolios :
          DecEq(ExactSum(heap[o].children, Len(heap[o].children)), DecOne)
    /\ (/\ ret.op = "Portfolio"
        /\ AllNumeric(ret.arg[2])
        /\ ~DecEq(ExactSum(AsDecimals(ret.arg[2]), Len(ret.arg[2])), DecOne))
       => ret.raise = WeightSumError

\* C2: no Portfolio has two children of one name; Portfolio(...) with two
\* children of one name raises DuplicateChildName whatever its numeric
\* weights are, and so does the decode of a document whose one fault is a
\* PORTFOLIO node with two children of one name, which returns no node.
C2_DuplicateNamesRejected ==
    /\ \A o \in HeapPortfolios : ~SharesName(heap[o].children)
    /\ (/\ ret.op = "Portfolio"
        /\ AllNumeric(ret.arg[2])
        /\ SharesName(ret.arg[2]))
       => ret.raise = DuplicateChildName /\ ret.val = 0
    /\ (/\ ret.op = "from_json"
        /\ ret.arg[1] \in {"Node", "Portfolio"}
        /\ ret.arg[3] = "repeat"
        /\ IsPortfolio(heap, NodeAt(heap, ret.self, ret.arg[2])))
       => ret.raise = DuplicateChildName /\ ret.val = 0

\* C2 witness: Portfolio(...) was refused for two children both named "B"
\* whose weights 0.5 and 0.5 sum to 1.
C2_Witness ==
    /\ ret.op = "Portfolio"
    /\ Len(ret.arg[2]) = 2
    /\ SharesName(ret.arg[2])
    /\ AllNumeric(ret.arg[2])
    /\ DecEq(ExactSum(AsDecimals(ret.arg[2]), 2), DecOne)
    /\ ret.raise = DuplicateChildName

\* C3: Node.from_json(T.to_json()) succeeds for every tree T, the decoded
\* tree has the content of T with every weight exactly equal, and the
\* decoded tree == T.
C3_RoundTrip ==
    (ret.op = "from_json" /\ ret.arg[1] = "Node" /\ ret.arg[3] = "none")
    => /\ ret.raise = ""
       /\ SameContent(heap, ret.val, ret.self)
       /\ eq(ret.val, ret.self)

\* The part of C3 that the code keeps: the decoded tree has the content of T
\* and encodes to the same document.
RoundTripKeepsContent ==
    (ret.op = "from_json" /\ ret.arg[1] = "Node" /\ ret.arg[3] = "none")
    => /\ ret.raise = ""
       /\ SameContent(heap, ret.val, ret.self)
       /\ to_dict(heap, ret.val) = to_dict(heap, ret.self)

\* C4: the values of flatten() of a Portfolio sum to exactly 1.
C4_FlattenSumsToOne ==
    (ret.op = "flatten" /\ ret.raise = "")
    => DecEq(ExactSum(ret.val, Len(ret.val)), DecOne)

\* C5: flatten() of a Portfolio has exactly one entry per leaf position,
\* keyed by the names from the root to the leaf joined with "/", whose value
\* is exactly the product of the child weights along that path.
C5_FlattenIsPathProducts ==
    (ret.op = "flatten" /\ ret.raise = "")
    => /\ Len(ret.val) = Cardinality(LeafPositions(heap, ret.self))
       /\ \A pos \in LeafPositions(heap, ret.self) : \E i \in 1..Len(ret.val) :
             /\ ret.val[i][1] = PathKey(heap, ret.self, pos)
             /\ DecEq(ret.val[i][2], PathWeight(heap, ret.self, pos))
       /\ \A i \in 1..Len(ret.val) : \E pos \in LeafPositions(heap, ret.self) :
             /\ ret.val[i][1] = PathKey(heap, ret.self, pos)
             /\ DecEq(ret.val[i][2], PathWeight(heap, ret.self, pos))

\* C6: all_equities() of a Portfolio is exactly the set of the Equity leaves
\* of its tree, and holds a ticker reachable by several paths once.
C6_LeavesOncePerTicker ==
    (ret.op = "all_equities" /\ ret.raise = "")
    => /\ ret.val = Leaves(heap, ret.self)
       /\ \A a, b \in ret.val : heap[a].ticker = heap[b].ticker => a = b

\* C7: two nodes are == exactly when they have the same content (Equities
\* of one ticker, Portfolios of one name and one child-to-weight mapping),
\* and nodes of the same content have equal hashes.
C7_StructuralEquality ==
    ret.op = "eq"
    => /\ ret.val.eq <=> SameContent(heap, ret.self, ret.arg)
       /\ SameContent(heap, ret.self, ret.arg) => ret.val.hash

\* C8: every child weight of every Portfolio, constructed or decoded, is
\* greater than 0 and at most 1.
C8_WeightsInUnitInterval ==
    \A o \in HeapPortfolios : \A i \in 1..Len(heap[o].children) :
       /\ DecLess(DecZero, heap[o].children[i][2])
       /\ ~DecLess(DecOne, heap[o].children[i][2])

LookupOf(h, o, key) ==
    IF \E i \in 1..Len(h[o].children) : h[h[o].children[i][1]].name = key
    THEN Some(h[o].children[CHOOSE i \in 1..Len(h[o].children) :
                               h[h[o].children[i][1]].name = key])
    ELSE None

\* the child of o named key, if there is one
ChildOf(h, o, key) ==
    IF LookupOf(h, o, key).none THEN None
    ELSE Some(LookupOf(h, o, key).v[1])

\* C10: at every moment p[key] of every Portfolio p is the entry (child,
\* weight) of p.children whose child is named key, and None when no child
\* has that name; p / key is the child alone, or None; both raise
\* NotSliceable on an Equity.
C10_LookupAgrees ==
    /\ \A o \in HeapPortfolios : \A key \in Keys :
          getitem(heap, o, key) = LookupOf(heap, o, key)
    /\ ret.op = "getitem"
       => IF IsEquity(heap, ret.self) THEN ret.raise = NotSliceable
          ELSE /\ ret.raise = ""
               /\ ret.val = LookupOf(heap, ret.self, ret.arg)
    /\ ret.op = "truediv"
       => IF IsEquity(heap, ret.self) THEN ret.raise = NotSliceable
          ELSE /\ ret.raise = ""
               /\ ret.val = ChildOf(heap, ret.self, ret.arg)

\* C10 witness: p / key gave the second of the two children of p.
C10_Witness ==
    /\ ret.op = "truediv"
    /\ ret.raise = ""
    /\ IsPortfolio(heap, ret.self)
    /\ Len(heap[ret.self].children) = 2
    /\ ret.val = Some(heap[ret.self].children[2][1])

====
